---- MODULE Spec2Model ----
(***************************************************************************)
(* Model of the firmware flashing sagas (src/unnamed/part_001).           *)
(*                                                                         *)
(* One BLE flash attempt (handleFlashFirmware) is a task that runs from   *)
(* one blocking effect (take / race / all / call of a promise) to the     *)
(* next.  redux-saga resumes a task synchronously inside the dispatch of  *)
(* the action it was waiting for, and runs every put / select / cancel it *)
(* reaches before control returns to the event loop, so one action of the *)
(* model is: one event of the environment, followed by everything the     *)
(* task does until it blocks again or ends.                               *)
(*                                                                         *)
(* The USB DFU flash attempt (handleFlashUsbDfu) is a task of the same    *)
(* kind; it shares loadFirmware with the BLE attempt.                      *)
(***************************************************************************)
EXTENDS Integers, Sequences, FiniteSets, TLC

\* ------------------------------------------------------------------ bounds
\* Longest compiled program the compiler collaborator answers with.
MaxMpyLen == 12
\* First id the process-wide message id counter may hand out is 0..MaxFirstId.
MaxFirstId == 1

\* ------------------------------------------------------- program constants
\* waitForResponse's default timeout and the timeout of the long waits.
DefaultTimeout == 500
LongTimeout == 5000
\* "14 is safe size for all hubs and Android"
SafeDataSize == 14
\* seed of the running checksum
ChecksumSeed == 255
\* a checksum is requested every 10 packets
ChecksumInterval == 10
\* dfuFirmwareStartAddress (0x08008000) and the bound of dfu.waitDisconnected
dfuFirmwareStartAddress == 134250496
DfuDisconnectTimeout == 30000

\* --------------------------------------------------------------- helpers
Min(a, b) == IF a < b THEN a ELSE b

RECURSIVE XorBits(_, _, _)
XorBits(a, b, n) ==
    IF n = 0 THEN 0
    ELSE (((a % 2) + (b % 2)) % 2) + (2 * XorBits(a \div 2, b \div 2, n - 1))

\* the xor of two bytes, tabulated once over all pairs of bytes
XorTable == [a \in 0..255 |-> [b \in 0..255 |-> XorBits(a, b, 8)]]

\* prev ^ curr on bytes (line 457)
Xor8(a, b) == XorTable[a][b]

\* payload.reduce((prev, curr) => prev ^ curr, runningChecksum)
RECURSIVE XorReduce(_, _)
XorReduce(payload, acc) ==
    IF payload = <<>> THEN acc
    ELSE XorReduce(Tail(payload), Xor8(acc, Head(payload)))

\* firmware.slice(offset, offset + maxDataSize): clamped to the array
Slice(arr, from, to) == SubSeq(arr, from + 1, Min(to, Len(arr)))

\* -------------------------------------------------------- recorded actions
\* Every redux action of the attempt (put by the task, or dispatched by its
\* collaborators) is appended to the log; the end of a delay() that wins a
\* race is recorded as "timeout", with the pattern that was waited for.
\* A response action carries no message id; the id recorded with it is the
\* id of the request the hub sent it for.  The calls handleFlashUsbDfu makes
\* on the USB device and the WebDFU object are recorded as well, by name.
Ev(t, id, x, y, data, r) ==
    [t |-> t, id |-> id, x |-> x, y |-> y, data |-> data, r |-> r]
E0(t) == Ev(t, 0, 0, 0, <<>>, "")
EId(t, id) == Ev(t, id, 0, 0, <<>>, "")
FailEv(reason, detail) == Ev("didFailToFinish", 0, 0, 0, <<>>, reason \o detail)

\* ------------------------------------------------------ firmware archives
\* Collaborator data the sagas only read: hub types (@pybricks/firmware) and
\* the contents of the firmware.zip files handed to FirmwareReader.
HubTypes == {"MoveHub", "CityHub", "TechnicHub", "PrimeHub"}

Bytes(n, seed) == [i \in 1..n |-> ((i * 37) + seed) % 256]

\* kind: what FirmwareReader.load / read* do with the data.
Arch(kind, abi, off, maxSize, cksum, dev, maxName, nameOff, mainPy) ==
    [kind |-> kind, base |-> Bytes(off, 5), abi |-> abi, off |-> off,
     maxSize |-> maxSize, cksum |-> cksum, deviceId |-> dev,
     maxName |-> maxName, nameOff |-> nameOff, mainPy |-> mainPy]

Archives ==
    [city     |-> Arch("ok", 6, 4, 32, "sum", "CityHub", 3, 0, "main"),
     technic  |-> Arch("ok", 5, 4, 32, "crc32", "TechnicHub", 0, 0, ""),
     move     |-> Arch("ok", 5, 4, 32, "sum", "CityHub", 0, 0, "main"),
     small    |-> Arch("ok", 6, 4, 16, "crc32", "CityHub", 0, 0, "main"),
     oldAbi   |-> Arch("ok", 4, 4, 32, "sum", "CityHub", 0, 0, "main"),
     noSum    |-> Arch("ok", 6, 4, 32, "md5", "TechnicHub", 0, 0, "main"),
     odd      |-> Arch("ok", 6, 2, 32, "sum", "CityHub", 0, 0, "main"),
     corrupt  |-> Arch("zipError", 6, 4, 32, "sum", "CityHub", 0, 0, "main"),
     broken   |-> Arch("otherError", 6, 4, 32, "sum", "CityHub", 0, 0, "main"),
     unreadable |-> Arch("readThrows", 6, 4, 32, "sum", "CityHub", 0, 0, "main"),
     prime    |-> Arch("ok", 6, 4, 32, "sum", "PrimeHub", 0, 0, "main"),
     \* archives for the checks of loadFirmware alone
     abi3     |-> Arch("ok", 3, 4, 32, "sum", "CityHub", 0, 0, "main"),
     abi7     |-> Arch("ok", 7, 4, 32, "crc32", "TechnicHub", 0, 0, "main"),
     example  |-> Arch("ok", 5, 100, 128, "crc32", "TechnicHub", 0, 0, "main"),
     tight    |-> Arch("ok", 6, 4, 16, "sum", "CityHub", 0, 0, "main"),
     zeroSum  |-> [Arch("ok", 6, 4, 16, "sum", "CityHub", 0, 0, "main")
                      EXCEPT !.base = <<1, 0, 0, 0>>],
     bigNoSum |-> Arch("ok", 6, 4, 16, "md5", "TechnicHub", 0, 0, "main"),
     oddSmall |-> Arch("ok", 5, 2, 8, "sum", "MoveHub", 0, 0, "main"),
     named    |-> Arch("ok", 6, 8, 64, "crc32", "TechnicHub", 4, 4, "")]

\* the archives a flash attempt is started with
ArchiveIds ==
    {"city", "technic", "move", "small", "oldAbi", "noSum", "odd", "corrupt",
     "broken", "unreadable", "prime"}

\* the archives loadFirmware is checked on
BuildArchiveIds == DOMAIN Archives

\* firmwareZipMap (lines 86-90): the packaged archive of a hub type, or
\* "undefined".  What the fetched file holds is the server's business.
firmwareZipMap(hubType) ==
    CASE hubType = "CityHub" -> "city"
      [] hubType = "TechnicHub" -> "technic"
      [] hubType = "MoveHub" -> "move"
      [] OTHER -> "undefined"

\* MaxProgramFlashSize.get(hubType) of ../lwp3-bootloader/protocol; 0 stands
\* for undefined (both are falsy in line 449).
MaxProgramFlashSize(hubType) ==
    CASE hubType = "CityHub" -> 1
      [] hubType = "TechnicHub" -> 2
      [] hubType = "MoveHub" -> 14
      [] OTHER -> 0

\* compiled programs the compiler may answer with
MpyLens == {0, 3, 8, MaxMpyLen}
MpySet == {Bytes(n, 11) : n \in MpyLens}

HubNames == {<<>>, <<72, 105>>}

\* Result.OK and an error result of ../lwp3-bootloader/protocol
ResultOK == 0
ResultError == 255

\* ------------------------------------------------- checksums (utils/math)
\* A 32-bit word is the pair <<low half, high half>> of 16-bit halves.
Half == 65536
W32(lo, hi) == <<lo, hi>>
AllOnes == W32(Half - 1, Half - 1)
IsZero32(w) == w[1] = 0 /\ w[2] = 0

RECURSIVE SumHalf(_, _)
SumHalf(ws, j) == IF ws = <<>> THEN 0 ELSE Head(ws)[j] + SumHalf(Tail(ws), j)

\* the 32-bit sum of the words
Sum32(ws) ==
    LET lo == SumHalf(ws, 1)
        hi == SumHalf(ws, 2) + (lo \div Half)
    IN  W32(lo % Half, hi % Half)

\* ~w + 1 in 32 bits
Neg32(w) ==
    LET lo == ((Half - 1) - w[1]) + 1
        hi == ((Half - 1) - w[2]) + (lo \div Half)
    IN  W32(lo % Half, hi % Half)

\* two's complement of the 32-bit sum of the words
sumComplement32(ws) == Neg32(Sum32(ws))

\* Applying a function evaluates its argument first, which keeps the
\* evaluation of the register's long chain of updates shallow.
XorHalf[p \in Nat \X Nat] == XorBits(p[1], p[2], 16)

Xor32(a, b) == W32(XorHalf[<<a[1], b[1]>>], XorHalf[<<a[2], b[2]>>])

\* reflected CRC-32 polynomial 0xEDB88320
CrcPoly == W32(33568, 60856)

Shr32(w) == W32((w[1] \div 2) + ((w[2] % 2) * (Half \div 2)), w[2] \div 2)

\* one bit of the register
CrcBit[c \in Nat \X Nat] ==
    IF c[1] % 2 = 1 THEN Xor32(Shr32(c), CrcPoly) ELSE Shr32(c)

\* one byte: p = <<register, byte>>
CrcByte[p \in (Nat \X Nat) \X Nat] ==
    CrcBit[CrcBit[CrcBit[CrcBit[CrcBit[CrcBit[CrcBit[CrcBit[
        Xor32(p[1], W32(p[2], 0))]]]]]]]]

\* one word, low byte first: p = <<register, word>>
CrcWord[p \in (Nat \X Nat) \X (Nat \X Nat)] ==
    CrcByte[<<CrcByte[<<CrcByte[<<CrcByte[<<p[1], p[2][1] % 256>>],
                                   p[2][1] \div 256>>],
                        p[2][2] % 256>>],
              p[2][2] \div 256>>]

crc32(ws) ==
    LET reg[i \in 0..Len(ws)] ==
            IF i = 0 THEN AllOnes ELSE CrcWord[<<reg[i - 1], ws[i]>>]
    IN  Xor32(reg[Len(ws)], AllOnes)

\* fmod(n, m): floored modulo
fmod(n, m) == n % m

\* ------------------------------------------------------------ image builder
\* the four bytes DataView.setUint32(at, w, true) writes
LE32(w) == <<w[1] % 256, w[1] \div 256, w[2] % 256, w[2] \div 256>>

\* a length as a 32-bit word
ToW32(n) == W32(n % Half, n \div Half)

\* TypedArray.set(bytes, at); the caller checks the range
SetAt(arr, bytes, at) ==
    [i \in 1..Len(arr) |-> IF i > at /\ i <= at + Len(bytes) THEN bytes[i - at] ELSE arr[i]]

\* DataView.getUint32(i, true)
GetUint32(arr, i) ==
    W32(arr[i + 1] + (256 * arr[i + 2]), arr[i + 3] + (256 * arr[i + 4]))

\* encodeHubName of @pybricks/firmware: max-hub-name-size bytes, the name
\* cut so that a terminating zero stays
encodeHubName(name, maxName) ==
    [i \in 1..maxName |-> IF i <= Len(name) /\ i < maxName THEN name[i] ELSE 0]

\* firmwareIterator (lines 173-182): the words of the view, then ~0 for the
\* free space up to maxSize.  Reading a word that ends past the view throws.
IteratorThrows(data) == Len(data) % 4 # 0

\* firmwareIterator leaving out the last word of the view
firmwareIteratorSkipsFooter(data, maxSize) ==
    [k \in 1..((Len(data) \div 4) - 1) |-> GetUint32(data, 4 * (k - 1))]
    \o [k \in 1..(IF maxSize > Len(data) THEN ((maxSize - Len(data)) + 3) \div 4 ELSE 0)
            |-> AllOnes]

firmwareIterator(data, maxSize) ==
    [k \in 1..(Len(data) \div 4) |-> GetUint32(data, 4 * (k - 1))]
    \o [k \in 1..(IF maxSize > Len(data) THEN ((maxSize - Len(data)) + 3) \div 4 ELSE 0)
            |-> AllOnes]

\* ChecksumOffset adding a whole word of padding to an aligned program
ChecksumOffsetAlwaysPads(off, n) == off + 4 + n + (4 - (n % 4))

\* lines 264-265
ChecksumOffset(off, n) == off + 4 + n + fmod(-n, 4)

\* ImageBody writing the encoded name whenever the firmware has room for one
ImageBodyAlwaysNames(zip, mpy, name) ==
    LET n == Len(mpy)
        blank == [i \in 1..(ChecksumOffset(zip.off, n) + 4) |-> 0]
        f1 == SetAt(blank, zip.base, 0)
        f2 == SetAt(f1, LE32(ToW32(n)), zip.off)
        f3 == SetAt(f2, mpy, zip.off + 4)
    IN  IF zip.maxName # 0
        THEN SetAt(f3, encodeHubName(name, zip.maxName), zip.nameOff)
        ELSE f3

\* lines 279-289: the image before the checksum is computed
ImageBody(zip, mpy, name) ==
    LET n == Len(mpy)
        blank == [i \in 1..(ChecksumOffset(zip.off, n) + 4) |-> 0]
        f1 == SetAt(blank, zip.base, 0)
        f2 == SetAt(f1, LE32(ToW32(n)), zip.off)
        f3 == SetAt(f2, mpy, zip.off + 4)
    IN  IF zip.maxName # 0 /\ name # <<>>
        THEN SetAt(f3, encodeHubName(name, zip.maxName), zip.nameOff)
        ELSE f3

\* Checksum falling back to 'sum' for a type it does not know
ChecksumDefaultsToSum(zip, body) ==
    CASE zip.cksum = "crc32" -> crc32(firmwareIterator(body, zip.maxSize))
      [] OTHER -> sumComplement32(firmwareIterator(body, zip.maxSize))

\* lines 291-304; the zero word also stands for undefined (both fail the test of line 306)
Checksum(zip, body) ==
    CASE zip.cksum = "sum" -> sumComplement32(firmwareIterator(body, zip.maxSize))
      [] zip.cksum = "crc32" -> crc32(firmwareIterator(body, zip.maxSize))
      [] OTHER -> W32(0, 0)

\* BuildFirmware testing the size only after the image is written and summed
BuildFirmwareSizeLast(zip, mpy, name) ==
    LET n == Len(mpy)
        off == ChecksumOffset(zip.off, n)
        len == off + 4
    IN  IF \/ Len(zip.base) > len
           \/ (zip.maxName # 0 /\ name # <<>> /\ zip.nameOff + zip.maxName > len)
           \/ (zip.cksum \in {"sum", "crc32"} /\ len % 4 # 0)
        THEN [status |-> "throws", firmware |-> <<>>]
        ELSE LET body == ImageBody(zip, mpy, name)
                 sum == Checksum(zip, body)
             IN  IF IsZero32(sum) THEN [status |-> "checksum-type", firmware |-> <<>>]
                 ELSE IF len > zip.maxSize
                 THEN [status |-> "FirmwareSize", firmware |-> <<>>]
                 ELSE [status |-> "ok", firmware |-> SetAt(body, LE32(sum), off)]

\* lines 263-323: what loadFirmware does once the program is compiled
BuildFirmware(zip, mpy, name) ==
    LET n == Len(mpy)
        off == ChecksumOffset(zip.off, n)
        len == off + 4
    IN  IF len > zip.maxSize THEN [status |-> "FirmwareSize", firmware |-> <<>>]
        ELSE IF \/ Len(zip.base) > len
                \/ (zip.maxName # 0 /\ name # <<>> /\ zip.nameOff + zip.maxName > len)
                \/ (zip.cksum \in {"sum", "crc32"} /\ len % 4 # 0)
        THEN [status |-> "throws", firmware |-> <<>>]
        ELSE LET body == ImageBody(zip, mpy, name)
                 sum == Checksum(zip, body)
             IN  IF IsZero32(sum) THEN [status |-> "checksum-type", firmware |-> <<>>]
                 ELSE [status |-> "ok", firmware |-> SetAt(body, LE32(sum), off)]

\* ------------------------------------------------------------------- state
VARIABLES
    pc,              \* where handleFlashFirmware is blocked
    log,             \* the actions of the attempt, in the order of dispatch
    connection,      \* s.bootloader.connection
    nextId,          \* the counter behind nextMessageId()
    data,            \* action.data: an archive, or "null"
    customProgram,   \* action.customProgram is set
    hubName,         \* action.hubName
    android,         \* isAndroid()
    program,         \* let program
    zip,             \* the archive loadFirmware is working on
    firmware,        \* let firmware (<<>> is undefined)
    deviceId,        \* let deviceId
    hubType,         \* info.hubType
    startAddress,    \* info.startAddress
    maxDataSize,
    runningChecksum,
    count,
    offset,
    curId,           \* id of the request waitForDidRequest waits for
    sentPending,     \* waitForDidRequest's race is pending
    respPending,     \* waitForResponse's race is pending
    pattern,         \* waitForResponse's pattern
    timeout,         \* waitForResponse's timeout
    resp,            \* what waitForResponse returned
    saga,            \* the saga the task runs
    device,          \* const device (handleFlashUsbDfu)
    defer            \* const defer (handleFlashUsbDfu)

vars == <<pc, log, connection, nextId, data, customProgram, hubName, android,
          program, zip, firmware, deviceId, hubType, startAddress, maxDataSize,
          runningChecksum, count, offset, curId, sentPending, respPending,
          pattern, timeout, resp, saga, device, defer>>

\* the state as one value, for the steps of the task to pass along
Cur ==
    [pc |-> pc, log |-> log, connection |-> connection, nextId |-> nextId,
     data |-> data, customProgram |-> customProgram, hubName |-> hubName,
     android |-> android, program |-> program, zip |-> zip,
     firmware |-> firmware, deviceId |-> deviceId, hubType |-> hubType,
     startAddress |-> startAddress, maxDataSize |-> maxDataSize,
     runningChecksum |-> runningChecksum, count |-> count, offset |-> offset,
     curId |-> curId, sentPending |-> sentPending, respPending |-> respPending,
     pattern |-> pattern, timeout |-> timeout, resp |-> resp,
     saga |-> saga, device |-> device, defer |-> defer]

Become(s) ==
    /\ pc' = s.pc /\ log' = s.log /\ connection' = s.connection
    /\ nextId' = s.nextId /\ data' = s.data /\ customProgram' = s.customProgram
    /\ hubName' = s.hubName /\ android' = s.android /\ program' = s.program
    /\ zip' = s.zip /\ firmware' = s.firmware /\ deviceId' = s.deviceId
    /\ hubType' = s.hubType /\ startAddress' = s.startAddress
    /\ maxDataSize' = s.maxDataSize /\ runningChecksum' = s.runningChecksum
    /\ count' = s.count /\ offset' = s.offset /\ curId' = s.curId
    /\ sentPending' = s.sentPending /\ respPending' = s.respPending
    /\ pattern' = s.pattern /\ timeout' = s.timeout /\ resp' = s.resp
    /\ saga' = s.saga /\ device' = s.device /\ defer' = s.defer

NoResp == E0("none")

\* ---------------------------------------------------- store and effects
\* The connection reducer of ../lwp3-bootloader/reducers.
connectionReducer(state, t) ==
    CASE t = "connect" -> "Connecting"
      [] t = "didConnect" -> "Connected"
      [] t = "didFailToConnect" -> "Disconnected"
      [] t = "disconnect" -> "Disconnecting"
      [] t = "didDisconnect" -> "Disconnected"
      [] OTHER -> state

\* An action goes through the reducers, then to the sagas.
Dispatch(s, ev) ==
    [s EXCEPT !.log = Append(@, ev), !.connection = connectionReducer(@, ev.t)]

\* yield* put(ev)
Put(s, ev) == Dispatch(s, ev)

\* an action of the environment that a take of this task matched
Take(s, ev) == Dispatch(s, ev)

\* a call on the WebDFU object, or the settling of one, recorded in the log
Call(s, name, x, payload, outcome) ==
    [s EXCEPT !.log = Append(@, Ev(name, 0, x, 0, payload, outcome))]

\* lines 702-706, the finally block of handleFlashUsbDfu: the deferred calls
\* are made, the one pushed last first; handleFlashFirmware has no finally
\* block and defers nothing
Finally(s) ==
    [s EXCEPT !.log = @ \o [i \in 1..Len(s.defer) |->
                                 E0(s.defer[(Len(s.defer) + 1) - i])],
              !.defer = <<>>]

\* cancel() that leaves the effects of the task pending
CancelKeepsEffects(s) == [s EXCEPT !.pc = "cancelled"]

\* cancel() that ends the task without running its finally block
CancelSkipsFinally(s) ==
    [s EXCEPT !.pc = "cancelled", !.sentPending = FALSE, !.respPending = FALSE]

\* yield* cancel(): the task ends, and with it the effects it is blocked on;
\* the generator is returned from, which runs its finally block
Cancel(s) ==
    [Finally(s) EXCEPT !.pc = "cancelled", !.sentPending = FALSE,
                       !.respPending = FALSE]

\* disconnectAndCancel without the test of the connection
disconnectAlways(s) == Cancel(Put(s, E0("disconnect")))

\* lines 96-104
disconnectAndCancel(s) ==
    Cancel(IF s.connection = "Connected" THEN Put(s, E0("disconnect")) ELSE s)

\* the disconnect put before the notification
FailDisconnectFirst(s, reason, detail) ==
    Cancel(Put(IF s.connection = "Connected" THEN Put(s, E0("disconnect")) ELSE s,
               FailEv(reason, detail)))

\* yield* put(didFailToFinish(...)); yield* disconnectAndCancel();
Fail(s, reason, detail) == disconnectAndCancel(Put(s, FailEv(reason, detail)))

Alert(category, name) ==
    Ev("alertsShowAlert", 0, 0, 0, <<>>, category \o "." \o name)

\* a return statement of handleFlashUsbDfu, or its end
DfuReturn(s) == [Finally(s) EXCEPT !.pc = "done"]

\* lines 572-574, 610-612, 635-637, 651-653
DfuGiveUp(s, name) ==
    DfuReturn(Put(Put(s, Alert("firmware", name)), E0("firmwareDidFailToFlashUsbDfu")))

\* lines 692-701: the alert carries ensureError(err)
DfuCatch(s, err) ==
    DfuReturn(Put(Put(s, Alert("alerts", "unexpectedError" \o err)),
                  E0("firmwareDidFailToFlashUsbDfu")))

\* an exception thrown inside the try block of the saga the task runs:
\* lines 550-553 (the notification carries ensureError(err)), lines 692-701
Catch(s, err) ==
    IF s.saga = "handleFlashUsbDfu" THEN DfuCatch(s, err)
    ELSE Fail(s, "Unknown", err)

\* SendAndWait sending under the id of the previous request
SendAndWaitReusesId(s, t, x, payload, pat, ms, at) ==
    [Put(s, Ev(t, s.curId, x, 0, payload, "")) EXCEPT
        !.sentPending = TRUE,
        !.respPending = (pat # ""), !.pattern = pat, !.timeout = ms,
        !.resp = NoResp, !.pc = at]

\* put(<request>(nextMessageId(), ...)) followed by the wait for its
\* didRequest and, with a pattern, all({sent, response}) (lines 378-382)
SendAndWait(s, t, x, payload, pat, ms, at) ==
    [Put(s, Ev(t, s.nextId, x, 0, payload, "")) EXCEPT
        !.nextId = s.nextId + 1, !.curId = s.nextId, !.sentPending = TRUE,
        !.respPending = (pat # ""), !.pattern = pat, !.timeout = ms,
        !.resp = NoResp, !.pc = at]

\* ------------------------------------------- handleFlashFirmware, by step
\* Each operator is the code the task runs from one blocking effect to the
\* next; they are listed from the end of the function to its start.

\* line 549
AfterReboot(s) == [Put(s, E0("didFinish")) EXCEPT !.pc = "done"]

\* AfterFlash comparing the checksum before the count
AfterFlashChecksumFirst(s) ==
    IF s.resp.x # s.runningChecksum THEN Fail(s, "HubError", ".ChecksumMismatch")
    ELSE IF s.resp.y # Len(s.firmware) THEN Fail(s, "HubError", ".CountMismatch")
    ELSE SendAndWait(Put(s, Ev("didProgress", 0, 1, 1, <<>>, "")),
                     "rebootRequest", 0, <<>>, "", 0, "reboot")

\* lines 514-547: the checks on the terminal programResponse
AfterFlash(s) ==
    IF s.resp.y # Len(s.firmware) THEN Fail(s, "HubError", ".CountMismatch")
    ELSE IF s.resp.x # s.runningChecksum THEN Fail(s, "HubError", ".ChecksumMismatch")
    ELSE SendAndWait(Put(s, Ev("didProgress", 0, 1, 1, <<>>, "")),
                     "rebootRequest", 0, <<>>, "", 0, "reboot")

\* line 512
WaitFlash(s) ==
    [s EXCEPT !.pc = "flash", !.respPending = TRUE, !.pattern = "programResponse",
              !.timeout = LongTimeout, !.resp = NoResp]

\* ProgramChunk starting the checksum over with every packet
ProgramChunkReseed(s) ==
    LET payload == Slice(s.firmware, s.offset, s.offset + s.maxDataSize)
    IN  SendAndWait([s EXCEPT !.runningChecksum = XorReduce(payload, ChecksumSeed)],
                    "programRequest", s.startAddress + s.offset, payload,
                    "", 0, "program")

\* lines 454-468: one packet
ProgramChunk(s) ==
    LET payload == Slice(s.firmware, s.offset, s.offset + s.maxDataSize)
    IN  SendAndWait([s EXCEPT !.runningChecksum = XorReduce(payload, @)],
                    "programRequest", s.startAddress + s.offset, payload,
                    "", 0, "program")

\* AfterChecksum without the comparison
AfterChecksumNoCheck(s) == ProgramChunk([s EXCEPT !.count = @ + 1])

\* line 491 and the count++ of line 453
AfterChecksum(s) ==
    IF s.resp.x # s.runningChecksum THEN Fail(s, "HubError", ".ChecksumMismatch")
    ELSE ProgramChunk([s EXCEPT !.count = @ + 1])

\* ChecksumDue counting the packets from 0
ChecksumDueFromZero(n) == (n - 1) % ChecksumInterval = 0

\* line 483
ChecksumDue(n) == n % ChecksumInterval = 0

\* AfterProgramSent reporting the bytes sent with the packet just sent
AfterProgramSentCountsChunk(s) ==
    LET s1 == [Put(s, Ev("didProgress", 0, Min(s.offset + s.maxDataSize, Len(s.firmware)),
                         Len(s.firmware), <<>>, ""))
                  EXCEPT !.offset = @ + s.maxDataSize]
    IN  IF s1.offset >= Len(s1.firmware) THEN WaitFlash(s1)
        ELSE IF ChecksumDue(s1.count)
        THEN SendAndWait(s1, "checksumRequest", 0, <<>>,
                         "checksumResponse", LongTimeout, "checksum")
        ELSE ProgramChunk([s1 EXCEPT !.count = @ + 1])

\* lines 470-489
AfterProgramSent(s) ==
    LET s1 == [Put(s, Ev("didProgress", 0, s.offset, Len(s.firmware), <<>>, ""))
                  EXCEPT !.offset = @ + s.maxDataSize]
    IN  IF s1.offset >= Len(s1.firmware) THEN WaitFlash(s1)
        ELSE IF ChecksumDue(s1.count)
        THEN SendAndWait(s1, "checksumRequest", 0, <<>>,
                         "checksumResponse", LongTimeout, "checksum")
        ELSE ProgramChunk([s1 EXCEPT !.count = @ + 1])

\* MaxDataSize as the smaller of the hub's size and the safe size on Android
MaxDataSizeSmaller(isAndroid, hub) ==
    IF MaxProgramFlashSize(hub) = 0 THEN SafeDataSize
    ELSE IF isAndroid THEN Min(MaxProgramFlashSize(hub), SafeDataSize)
    ELSE MaxProgramFlashSize(hub)

\* lines 448-449
MaxDataSize(isAndroid, hub) ==
    IF ~isAndroid /\ MaxProgramFlashSize(hub) # 0
    THEN MaxProgramFlashSize(hub) ELSE SafeDataSize

\* lines 440-453
AfterInit(s) ==
    IF s.resp.x # 0 THEN Fail(s, "HubError", ".InitFailed")
    ELSE ProgramChunk([s EXCEPT !.maxDataSize = MaxDataSize(s.android, s.hubType),
                                !.runningChecksum = ChecksumSeed,
                                !.count = 1, !.offset = 0])

\* AfterErase without the test of the result
AfterEraseNoCheck(s) ==
    SendAndWait(s, "initRequest", Len(s.firmware), <<>>,
                "initResponse", DefaultTimeout, "init")

\* lines 428-439
AfterErase(s) ==
    IF s.resp.x # ResultOK THEN Fail(s, "HubError", ".EraseFailed")
    ELSE SendAndWait(s, "initRequest", Len(s.firmware), <<>>,
                     "initResponse", DefaultTimeout, "init")

\* lines 419-427
StartErase(s) ==
    SendAndWait(Put(s, E0("didStart")), "eraseRequest",
                IF s.deviceId = "CityHub" THEN 1 ELSE 0, <<>>,
                "eraseResponse", LongTimeout, "erase")

\* the call of loadFirmware (lines 361 and 407) up to FirmwareReader.load
CallLoadFirmware(s, archive) == [s EXCEPT !.pc = "loadFirmware", !.zip = archive]

\* lines 384-398
AfterInfo(s) ==
    LET s1 == [s EXCEPT !.hubType = s.resp.r, !.startAddress = s.resp.x]
    IN  IF s1.deviceId # "undefined" /\ s1.hubType # s1.deviceId
        THEN Fail(s1, "DeviceMismatch", "")
        ELSE IF s1.firmware = <<>>
        THEN IF firmwareZipMap(s1.hubType) = "undefined"
             THEN Fail(s1, "NoFirmware", "")
             ELSE [s1 EXCEPT !.pc = "fetch"]
        ELSE StartErase(s1)

\* lines 399-407: the answer to fetch(firmwarePath)
AfterFetch(s, outcome) ==
    CASE outcome = "notOk" -> Fail(s, "FailedToFetch", "")
      [] outcome = "throws" -> Catch(s, ".fetchError")
      [] OTHER -> CallLoadFirmware(s, firmwareZipMap(s.hubType))

\* lines 371-382
AfterConnect(s, ev) ==
    IF ev.t = "didFailToConnect"
    THEN [Put(Take(s, ev), FailEv("FailedToConnect", "")) EXCEPT !.pc = "done"]
    ELSE SendAndWait(Take(s, ev), "infoRequest", 0, <<>>,
                     "infoResponse", DefaultTimeout, "info")

\* lines 368-369
Connect(s) == [Put(s, E0("connect")) EXCEPT !.pc = "connect"]

\* AfterLoadFirmware without the second test of the device id
AfterLoadFirmwareNoCheck(s) ==
    IF s.hubType = "none" THEN Connect(s) ELSE StartErase(s)

\* the return of loadFirmware to line 361 (before the connection) or to
\* line 407 (after infoResponse), and lines 413-416
AfterLoadFirmware(s) ==
    IF s.hubType = "none" THEN Connect(s)
    ELSE IF s.deviceId # "undefined" /\ s.hubType # s.deviceId
    THEN Fail(s, "DeviceMismatch", "")
    ELSE StartErase(s)

\* ------------------------------------------------- handleFlashUsbDfu, by step
\* LegoUsbProductId of ../usb: the products the device filter lets through
ProductIds ==
    {"SpikePrimeBootloader", "SpikeEssentialBootloader",
     "MindstormsRobotInventorBootloader"}

\* lines 557-561
productIdMap(productId) ==
    CASE productId = "SpikePrimeBootloader" -> "PrimeHub"
      [] productId = "SpikeEssentialBootloader" -> "EssentialHub"
      [] productId = "MindstormsRobotInventorBootloader" -> "PrimeHub"
      [] OTHER -> "undefined"

\* AfterWaitDisconnected taking the end of the wait as the hub's reset
AfterWaitDisconnectedAnyway(s, outcome) ==
    DfuReturn(Put(Call(s, "dfu.waitDisconnected", DfuDisconnectTimeout, <<>>, outcome),
                  E0("firmwareDidFlashUsbDfu")))

\* lines 689-691: dfu.waitDisconnected(30000) resolves when the device is
\* gone and rejects when the time is up
AfterWaitDisconnected(s, outcome) ==
    LET s1 == Call(s, "dfu.waitDisconnected", DfuDisconnectTimeout, <<>>, outcome)
    IN  IF outcome = "timeout" THEN DfuCatch(s1, ".timeout")
        ELSE DfuReturn(Put(s1, E0("firmwareDidFlashUsbDfu")))

\* lines 650-689: the return of loadFirmware to line 644
DfuAfterLoadFirmware(s) ==
    IF s.deviceId # productIdMap(s.device) THEN DfuGiveUp(s, "firmwareMismatch")
    ELSE [Call(s, "dfu.write", dfuFirmwareStartAddress, s.firmware, "")
             EXCEPT !.pc = "waitDisconnected"]

\* lines 640-648: dfu.connect(ifaceIndex) has settled
AfterDfuConnect(s, outcome) ==
    LET s1 == Call(s, "dfu.connect", 0, <<>>, outcome)
    IN  IF outcome = "throws" THEN DfuCatch(s1, ".connect")
        ELSE CallLoadFirmware([s1 EXCEPT !.defer = Append(@, "dfu.close")], s.data)

\* lines 627-640: dfu.init() has settled; alt0 tells whether one of
\* dfu.interfaces has alternate setting 0
AfterDfuInit(s, outcome) ==
    LET s1 == Call(s, "dfu.init", 0, <<>>, outcome)
    IN  CASE outcome = "throws" -> DfuCatch(s1, ".init")
          [] outcome = "noAlt0" -> DfuGiveUp(s1, "noDfuInterface")
          [] OTHER -> [s1 EXCEPT !.pc = "dfu.connect"]

\* lines 577-627: navigator.usb.requestDevice has settled
AfterRequestDevice(s, outcome) ==
    LET s1 == Call(s, "requestDevice", 0, <<>>, outcome)
    IN  CASE outcome = "throws" -> DfuCatch(s1, ".requestDevice")
          [] outcome = "undefined" -> DfuGiveUp(s1, "noDfuHub")
          [] OTHER -> [s1 EXCEPT !.device = outcome, !.pc = "dfu.init"]

\* lines 567-577
DfuStart(s, usb) ==
    IF ~usb THEN DfuGiveUp(s, "noWebUsb") ELSE [s EXCEPT !.pc = "requestDevice"]

\* loadFirmware returns to the saga that called it
LoadFirmwareReturn(s) ==
    IF s.saga = "handleFlashUsbDfu" THEN DfuAfterLoadFirmware(s)
    ELSE AfterLoadFirmware(s)

\* lines 252-323: loadFirmware from the compiler's answer on
LoadFirmwareBuild(s, ev) ==
    IF ev.t = "didFailToCompile" THEN Fail(Take(s, ev), "FailedToCompile", "")
    ELSE LET s1 == Take(s, ev)
             built == BuildFirmware(Archives[s.zip], ev.data, s.hubName)
         IN  CASE built.status = "FirmwareSize" -> Fail(s1, "FirmwareSize", "")
               [] built.status = "throws" -> Catch(s1, ".RangeError")
               [] built.status = "checksum-type" ->
                      Fail(s1, "BadMetadata", ".checksum-type")
               [] OTHER ->
                      LoadFirmwareReturn(
                          [s1 EXCEPT !.firmware = built.firmware,
                                     !.deviceId = Archives[s.zip].deviceId])

\* LoadFirmwareRead without the test of the ABI version
LoadFirmwareReadAnyAbi(s) ==
    LET archive == Archives[s.zip]
        source == IF s.program = "undefined" THEN archive.mainPy ELSE s.program
    IN  CASE archive.kind = "zipError" -> Fail(s, "ZipError", "")
          [] archive.kind = "otherError" -> Fail(s, "Unknown", ".readerErr")
          [] archive.kind = "readThrows" -> Catch(s, ".readError")
          [] OTHER -> [Put(s, Ev("compile", 0, archive.abi, 0, <<>>, source))
                          EXCEPT !.pc = "compile"]

\* lines 195-250: loadFirmware up to the wait for the compiler
LoadFirmwareRead(s) ==
    LET archive == Archives[s.zip]
        source == IF s.program = "undefined" THEN archive.mainPy ELSE s.program
    IN  CASE archive.kind = "zipError" -> Fail(s, "ZipError", "")
          [] archive.kind = "otherError" -> Fail(s, "Unknown", ".readerErr")
          [] archive.kind = "readThrows" -> Catch(s, ".readError")
          [] OTHER ->
                 IF archive.abi \notin {5, 6}
                 THEN Fail(s, "BadMetadata", ".mpy-abi-version")
                 ELSE [Put(s, Ev("compile", 0, archive.abi, 0, <<>>, source))
                          EXCEPT !.pc = "compile"]

\* AfterReadFile connecting before it looks at the archive
AfterReadFileConnectFirst(s) == Connect(s)

\* lines 360-368
AfterReadFile(s) ==
    IF s.data # "null" THEN CallLoadFirmware(s, s.data) ELSE Connect(s)

\* ReadFileResult going on without a program when the read failed
ReadFileResultIgnoresFailure(s, ev) == AfterReadFile(Take(s, ev))

\* lines 351-358
ReadFileResult(s, ev) ==
    IF ev.t = "fileStorageDidFailToReadFile" THEN Catch(Take(s, ev), "." \o ev.r)
    ELSE AfterReadFile([Take(s, ev) EXCEPT !.program = ev.r])

\* lines 332-349
Start(s) ==
    IF s.customProgram
    THEN [Put(s, E0("fileStorageReadFile")) EXCEPT !.pc = "readFile"]
    ELSE AfterReadFile(s)

\* the code after a completed all({sent, response}) or wait
Continue(s) ==
    CASE s.pc = "info" -> AfterInfo(s)
      [] s.pc = "erase" -> AfterErase(s)
      [] s.pc = "init" -> AfterInit(s)
      [] s.pc = "program" -> AfterProgramSent(s)
      [] s.pc = "checksum" -> AfterChecksum(s)
      [] s.pc = "flash" -> AfterFlash(s)
      [] s.pc = "reboot" -> AfterReboot(s)
      [] OTHER -> s

\* all() returns when each of its effects has
Joined(s) == IF s.sentPending \/ s.respPending THEN s ELSE Continue(s)

\* lines 106-122
waitForDidRequest(s, ev) ==
    IF ev.t = "didFailToRequest" THEN Fail(Take(s, ev), "BleError", "")
    ELSE Joined([Take(s, ev) EXCEPT !.sentPending = FALSE])

\* waitForResponse without the branch for errorResponse
waitForResponseNoError(s, ev) ==
    LET s1 == Take(s, ev)
    IN  CASE ev.t = "timeout" ->
                 IF s.pattern = "errorResponse"
                 THEN Joined([s1 EXCEPT !.respPending = FALSE,
                                  !.resp = Ev("eraseResponse", 0, ResultOK, 0, <<>>, "")])
                 ELSE Fail(s1, "TimedOut", "")
          [] ev.t = "didDisconnect" -> Fail(s1, "Disconnected", "")
          [] OTHER -> Joined([s1 EXCEPT !.respPending = FALSE, !.resp = ev])

\* lines 130-171; ev is the action that ended the race
waitForResponse(s, ev) ==
    LET s1 == Take(s, ev)
    IN  CASE ev.t = "timeout" ->
                 IF s.pattern = "errorResponse"
                 THEN Joined([s1 EXCEPT !.respPending = FALSE,
                                  !.resp = Ev("eraseResponse", 0, ResultOK, 0, <<>>, "")])
                 ELSE Fail(s1, "TimedOut", "")
          [] ev.t = "errorResponse" -> Fail(s1, "HubError", ".UnknownCommand")
          [] ev.t = "didDisconnect" -> Fail(s1, "Disconnected", "")
          [] OTHER -> Joined([s1 EXCEPT !.respPending = FALSE, !.resp = ev])

\* -------------------------------------------------------------- the hub
\* What the bootloader answers: it keeps the count and the checksum of the
\* bytes of the program requests it was sent.
RECURSIVE SentBytes(_)
SentBytes(l) ==
    IF l = <<>> THEN <<>>
    ELSE (IF Head(l).t = "programRequest" THEN Head(l).data ELSE <<>>)
         \o SentBytes(Tail(l))

HubChecksum(l) == XorReduce(SentBytes(l), ChecksumSeed)
HubCount(l) == Len(SentBytes(l))

StartAddresses == {4096}

Responses(s) ==
    CASE s.pattern = "infoResponse" ->
             {Ev("infoResponse", s.curId, a, 0, <<>>, h) :
                 a \in StartAddresses, h \in HubTypes}
      [] s.pattern = "eraseResponse" ->
             {Ev("eraseResponse", s.curId, r, 0, <<>>, "") : r \in {ResultOK, ResultError}}
      [] s.pattern = "initResponse" ->
             {Ev("initResponse", s.curId, r, 0, <<>>, "") : r \in {0, 1}}
      [] s.pattern = "checksumResponse" ->
             {Ev("checksumResponse", s.curId, c, 0, <<>>, "") :
                 c \in {HubChecksum(s.log), (HubChecksum(s.log) + 1) % 256}}
      [] s.pattern = "programResponse" ->
             {Ev("programResponse", s.curId, c, n, <<>>, "") :
                 c \in {HubChecksum(s.log), (HubChecksum(s.log) + 1) % 256},
                 n \in {HubCount(s.log), HubCount(s.log) + 1}}
      [] OTHER -> {}

\* the kind of request a response answers
RequestOf(pat) ==
    CASE pat = "infoResponse" -> "infoRequest"
      [] pat = "eraseResponse" -> "eraseRequest"
      [] pat = "initResponse" -> "initRequest"
      [] pat = "checksumResponse" -> "checksumRequest"
      [] pat = "programResponse" -> "programRequest"
      [] OTHER -> ""

\* id of the request of the kind the pending wait is about that was sent
\* last before the pending one (none: the empty set)
EarlierIds(s) ==
    LET earlier == {s.log[i].id : i \in {j \in DOMAIN s.log :
                       s.log[j].t = RequestOf(s.pattern) /\ s.log[j].id # s.curId}}
    IN  {id \in earlier : \A other \in earlier : other <= id}

\* ------------------------------------------------------------ the actions
\* The attempts checked differ from the plain one (counter at 0, no custom
\* program, no hub name, not Android) in at most one of these respects.
Varied(first, custom, name, isAndroid) ==
    (IF first # 0 THEN 1 ELSE 0) + (IF custom THEN 1 ELSE 0)
    + (IF name # <<>> THEN 1 ELSE 0) + (IF isAndroid THEN 1 ELSE 0)

Init ==
    /\ pc = "idle" /\ log = <<>> /\ connection = "Disconnected"
    /\ nextId \in 0..MaxFirstId
    /\ data \in ArchiveIds \cup {"null"}
    /\ customProgram \in BOOLEAN
    /\ hubName \in HubNames
    /\ android \in BOOLEAN
    /\ Varied(nextId, customProgram, hubName, android) <= 1
    /\ program = "undefined" /\ zip = "none" /\ firmware = <<>>
    /\ deviceId = "undefined" /\ hubType = "none" /\ startAddress = 0
    /\ maxDataSize = 0 /\ runningChecksum = 0 /\ count = 0 /\ offset = 0
    /\ curId = 0 /\ sentPending = FALSE /\ respPending = FALSE
    /\ pattern = "" /\ timeout = 0 /\ resp = NoResp
    /\ saga = "handleFlashFirmware" /\ device = "none" /\ defer = <<>>

\* takeEvery(flashFirmware, handleFlashFirmware)
FlashFirmware == pc = "idle" /\ Become(Start(Cur))

FileStorageDidReadFile ==
    /\ pc = "readFile"
    /\ \E contents \in {"custom", ""} :
          Become(ReadFileResult(Cur, Ev("fileStorageDidReadFile", 0, 0, 0, <<>>, contents)))

FileStorageDidFailToReadFile ==
    /\ pc = "readFile"
    /\ Become(ReadFileResult(Cur, Ev("fileStorageDidFailToReadFile", 0, 0, 0, <<>>,
                                     "fileError")))

\* FirmwareReader.load and the reads of the archive have settled
FirmwareReaderDone == pc = "loadFirmware" /\ Become(LoadFirmwareRead(Cur))

DidCompile ==
    /\ pc = "compile"
    /\ \E mpy \in MpySet :
          Become(LoadFirmwareBuild(Cur, Ev("didCompile", 0, 0, 0, mpy, "")))

DidFailToCompile ==
    pc = "compile" /\ Become(LoadFirmwareBuild(Cur, E0("didFailToCompile")))

DidConnect == pc = "connect" /\ Become(AfterConnect(Cur, E0("didConnect")))

DidFailToConnect ==
    pc = "connect" /\ Become(AfterConnect(Cur, E0("didFailToConnect")))

FetchDone ==
    /\ pc = "fetch"
    /\ \E outcome \in {"ok", "notOk", "throws"} : Become(AfterFetch(Cur, outcome))

DidRequest ==
    /\ sentPending /\ connection = "Connected"
    /\ Become(waitForDidRequest(Cur, EId("didRequest", curId)))

DidFailToRequest ==
    sentPending /\ Become(waitForDidRequest(Cur, EId("didFailToRequest", curId)))

Response ==
    /\ respPending /\ connection = "Connected"
    /\ \E ev \in Responses(Cur) : Become(waitForResponse(Cur, ev))

ErrorResponse ==
    /\ respPending /\ connection = "Connected"
    /\ Become(waitForResponse(Cur, E0("errorResponse")))

Timeout ==
    respPending /\ Become(waitForResponse(Cur, Ev("timeout", 0, timeout, 0, <<>>, pattern)))

\* The hub goes away.  A pending waitForResponse takes the action; otherwise
\* only the reducer sees it (recorded with the note "no taker").
DidDisconnect ==
    /\ connection = "Connected" /\ pc \notin {"done", "cancelled"}
    /\ IF respPending
       THEN Become(waitForResponse(Cur, E0("didDisconnect")))
       ELSE Become(Dispatch(Cur, Ev("didDisconnect", 0, 0, 0, <<>>, "no taker")))

Next ==
    \/ FlashFirmware
    \/ FileStorageDidReadFile
    \/ FileStorageDidFailToReadFile
    \/ FirmwareReaderDone
    \/ DidCompile
    \/ DidFailToCompile
    \/ DidConnect
    \/ DidFailToConnect
    \/ FetchDone
    \/ DidRequest
    \/ DidFailToRequest
    \/ Response
    \/ ErrorResponse
    \/ Timeout
    \/ DidDisconnect

Spec == Init /\ [][Next]_vars

\* What is bound to happen: the delay of a pending race runs out unless the
\* race ends before, and the collaborators that work inside the application
\* (the takeEvery fork, file storage, FirmwareReader, the compiler, fetch,
\* the opening of the connection) settle.  Nothing makes the hub answer, or
\* the transport acknowledge a request.  At most one of these is due at a
\* time.
Settles ==
    \/ FlashFirmware
    \/ FileStorageDidFailToReadFile
    \/ FileStorageDidReadFile
    \/ FirmwareReaderDone
    \/ DidFailToCompile
    \/ DidCompile
    \/ FetchDone
    \/ DidFailToConnect
    \/ DidConnect
    \/ Timeout

Fairness == WF_vars(Settles)

LiveSpec == Init /\ [][Next]_vars /\ Fairness

\* ----------------------------------------------------- loadFirmware alone
\* An attempt with an archive supplied, followed up to the return of
\* loadFirmware (the put of connect), over more archives and every program
\* length up to MaxMpyLen.
BuildInit ==
    /\ pc = "idle" /\ log = <<>> /\ connection = "Disconnected"
    /\ nextId = 0
    /\ data \in BuildArchiveIds
    /\ customProgram = FALSE
    /\ hubName \in HubNames
    /\ android = FALSE
    /\ program = "undefined" /\ zip = "none" /\ firmware = <<>>
    /\ deviceId = "undefined" /\ hubType = "none" /\ startAddress = 0
    /\ maxDataSize = 0 /\ runningChecksum = 0 /\ count = 0 /\ offset = 0
    /\ curId = 0 /\ sentPending = FALSE /\ respPending = FALSE
    /\ pattern = "" /\ timeout = 0 /\ resp = NoResp
    /\ saga = "handleFlashFirmware" /\ device = "none" /\ defer = <<>>

BuildDidCompile ==
    /\ pc = "compile"
    /\ \E n \in 0..MaxMpyLen :
          Become(LoadFirmwareBuild(Cur, Ev("didCompile", 0, 0, 0, Bytes(n, 11), "")))

BuildNext ==
    \/ FlashFirmware
    \/ FirmwareReaderDone
    \/ BuildDidCompile
    \/ DidFailToCompile

BuildSpec == BuildInit /\ [][BuildNext]_vars

\* ------------------------------------------------------- the USB DFU flow
\* takeEvery(firmwareFlashUsbDfu, handleFlashUsbDfu): the action carries an
\* archive and a hub name; no program is handed to loadFirmware.
DfuInit ==
    /\ pc = "idle" /\ log = <<>> /\ connection = "Disconnected"
    /\ nextId = 0
    /\ data \in ArchiveIds
    /\ customProgram = FALSE
    /\ hubName \in HubNames
    /\ android = FALSE
    /\ program = "undefined" /\ zip = "none" /\ firmware = <<>>
    /\ deviceId = "undefined" /\ hubType = "none" /\ startAddress = 0
    /\ maxDataSize = 0 /\ runningChecksum = 0 /\ count = 0 /\ offset = 0
    /\ curId = 0 /\ sentPending = FALSE /\ respPending = FALSE
    /\ pattern = "" /\ timeout = 0 /\ resp = NoResp
    /\ saga = "handleFlashUsbDfu" /\ device = "none" /\ defer = <<>>

FirmwareFlashUsbDfu ==
    /\ pc = "idle"
    /\ \E usb \in BOOLEAN : Become(DfuStart(Cur, usb))

RequestDeviceDone ==
    /\ pc = "requestDevice"
    /\ \E outcome \in ProductIds \cup {"undefined", "throws"} :
          Become(AfterRequestDevice(Cur, outcome))

DfuInitDone ==
    /\ pc = "dfu.init"
    /\ \E outcome \in {"alt0", "noAlt0", "throws"} : Become(AfterDfuInit(Cur, outcome))

DfuConnectDone ==
    /\ pc = "dfu.connect"
    /\ \E outcome \in {"ok", "throws"} : Become(AfterDfuConnect(Cur, outcome))

WaitDisconnectedDone ==
    /\ pc = "waitDisconnected"
    /\ \E outcome \in {"disconnected", "timeout"} :
          Become(AfterWaitDisconnected(Cur, outcome))

DfuNext ==
    \/ FirmwareFlashUsbDfu
    \/ RequestDeviceDone
    \/ DfuInitDone
    \/ DfuConnectDone
    \/ FirmwareReaderDone
    \/ DidCompile
    \/ DidFailToCompile
    \/ WaitDisconnectedDone

DfuSpec == DfuInit /\ [][DfuNext]_vars

\* A frame of the awaited type that the hub sent for an earlier request of
\* the same kind (late or duplicated) reaches the store while a wait is
\* pending.
StaleResponse ==
    /\ respPending /\ connection = "Connected"
    /\ \E ev \in Responses(Cur), other \in EarlierIds(Cur) :
          Become(waitForResponse(Cur, [ev EXCEPT !.id = other]))

StaleNext == Next \/ StaleResponse

\* the attempt on a link that may deliver such frames
StaleSpec == Init /\ [][StaleNext]_vars

\* The hub has the last chunk and answers it with the terminal
\* programResponse before the transport has dispatched the didRequest of
\* that chunk.  The task is blocked in the waitForDidRequest of line 468: no
\* take of programResponse is pending, so only the store sees the action
\* (recorded with the note "no taker").
EarlyProgramResponse ==
    /\ pc = "program" /\ sentPending /\ ~respPending
    /\ connection = "Connected"
    /\ offset + maxDataSize >= Len(firmware)
    /\ \A i \in DOMAIN log : log[i].t # "programResponse"
    /\ Become(Dispatch(Cur, Ev("programResponse", curId, HubChecksum(log),
                               HubCount(log), <<>>, "no taker")))

EarlyNext == Next \/ EarlyProgramResponse

\* the attempt with a hub that may answer the last chunk that early
EarlySpec == Init /\ [][EarlyNext]_vars

\* ------------------------------------------------------- reading the log
Pos(t) == {i \in DOMAIN log : log[i].t = t}
Has(t) == \E i \in DOMAIN log : log[i].t = t
IsProgramRequest(e) == e.t = "programRequest"
ProgramRequests == SelectSeq(log, IsProgramRequest)
\* how many program requests were sent before position i
ChunksBefore(i) == Cardinality({j \in Pos("programRequest") : j < i})
CeilDiv(a, b) == (a + b - 1) \div b
\* the bytes of the program requests sent before position i
BytesBefore(i) == SentBytes(SubSeq(log, 1, i - 1))
\* 0xFF xor-ed with every byte of bs, one byte at a time
XorAll(bs) == XorReduce(bs, ChecksumSeed)
\* the actions the connection reducer reacts to; each sets the state whatever
\* it was before
ConnectionActions ==
    {"connect", "didConnect", "didFailToConnect", "disconnect", "didDisconnect"}
\* s.bootloader.connection right after the i-th action of the log
ConnAt(i) ==
    LET K == {j \in 1..i : log[j].t \in ConnectionActions}
    IN  IF K = {} THEN "Disconnected"
        ELSE connectionReducer("Disconnected",
                               log[CHOOSE j \in K : \A k \in K : k <= j].t)
Terminals == Pos("didFinish") \cup Pos("didFailToFinish")

\* ------------------------------------------------------------------ claims

\* C1: the requests of an attempt are emitted in the order connect,
\* infoRequest, eraseRequest, initRequest, programRequest(s), rebootRequest:
\* eraseRequest only after an infoResponse, initRequest only after an
\* eraseResponse with result OK, programRequest only after an initResponse
\* with result 0, rebootRequest only after a terminal programResponse with
\* the image's length and checksum, and didFinish directly after the
\* didRequest of the reboot request, with no response to it awaited.
C1_RequestOrder ==
    LET connects == Pos("connect")
        infoRequests == Pos("infoRequest")
        eraseRequests == Pos("eraseRequest")
        initRequests == Pos("initRequest")
        programRequests == Pos("programRequest")
        rebootRequests == Pos("rebootRequest")
        finishes == Pos("didFinish")
        After(ts, answers, requests, ok(_)) ==
            \A i \in ts :
                \E j \in answers : \E k \in requests : k < j /\ j < i /\ ok(j)
        AnyAnswer(j) == TRUE
        ResultIsOK(j) == log[j].x = ResultOK
        ResultIsZero(j) == log[j].x = 0
    IN  /\ \A ps \in {connects, infoRequests, eraseRequests, initRequests,
                       rebootRequests, finishes} : Cardinality(ps) <= 1
        /\ After(infoRequests, Pos("didConnect"), connects, AnyAnswer)
        /\ After(eraseRequests, Pos("infoResponse"), infoRequests, AnyAnswer)
        /\ After(initRequests, Pos("eraseResponse"), eraseRequests, ResultIsOK)
        /\ After(programRequests, Pos("initResponse"), initRequests, ResultIsZero)
        /\ \A i \in rebootRequests :
              /\ \E j \in Pos("programResponse") :
                    /\ j < i
                    /\ log[j].y = Len(firmware)
                    /\ log[j].x = XorAll(firmware)
                    /\ \A k \in programRequests : k < j
              /\ programRequests # {}
        /\ \A i \in finishes :
              /\ i > 2
              /\ log[i - 1].t = "didRequest"
              /\ log[i - 2].t = "rebootRequest"
              /\ log[i - 1].id = log[i - 2].id
              /\ i = Len(log)

C1_Witness ==
    /\ pc = "done" /\ Has("didFinish")
    /\ Cardinality(Pos("programRequest")) > 1

\* C2: a completed attempt has sent ceil(L/c) program requests; the k-th
\* carries the image bytes [(k-1)c, min(kc, L)) and is addressed at
\* startAddress + (k-1)c; a checksumRequest follows the k-th chunk exactly
\* when k mod 10 = 0 and chunk k is not the last one.
C2_Chunking ==
    LET L == Len(firmware)
        c == maxDataSize
        P == ProgramRequests
    IN  Len(P) > 0 =>
          /\ L >= 1 /\ c >= 1
          /\ Len(P) <= CeilDiv(L, c)
          /\ Has("didFinish") => Len(P) = CeilDiv(L, c)
          /\ \A k \in 1..Len(P) :
                /\ P[k].data = SubSeq(firmware, ((k - 1) * c) + 1, Min(k * c, L))
                /\ P[k].x = startAddress + ((k - 1) * c)
          /\ \A i \in Pos("checksumRequest") :
                LET k == ChunksBefore(i)
                IN  /\ k >= 1 /\ k % 10 = 0 /\ k < CeilDiv(L, c)
                    /\ \A j \in Pos("checksumRequest") : ChunksBefore(j) = k => j = i
          /\ \A k \in 1..(Len(P) - 1) :
                k % 10 = 0 => \E i \in Pos("checksumRequest") : ChunksBefore(i) = k

C2_Witness ==
    /\ Has("didFinish")
    /\ Cardinality(Pos("checksumRequest")) = 2
    /\ Len(ProgramRequests) = CeilDiv(Len(firmware), maxDataSize)
    /\ Len(firmware) % maxDataSize = 0

\* C3: whenever a reported checksum is about to be compared (the task waits
\* for a checksumResponse or for the terminal programResponse), the running
\* checksum is 0xFF xor-ed with every byte of the program requests sent so
\* far; at the terminal comparison these bytes are the whole image.
C3_RunningChecksum ==
    /\ pc \in {"program", "checksum", "flash"} =>
          runningChecksum = XorAll(SentBytes(log))
    /\ pc = "flash" =>
          /\ SentBytes(log) = firmware
          /\ runningChecksum = XorAll(firmware)

C3_Witness ==
    /\ pc = "flash" /\ respPending
    /\ Has("checksumResponse")
    /\ runningChecksum # ChecksumSeed

\* the request a response at position i answers: the last one put before it
LastBefore(t, i) == CHOOSE q \in Pos(t) : q < i /\ \A r \in Pos(t) : r < i => r <= q
\* the attempt ended right after position i: a disconnect follows if the
\* connection was Connected, and nothing else
EndsAfter(i) ==
    /\ pc = "cancelled" /\ ~sentPending /\ ~respPending
    /\ IF ConnAt(i) = "Connected"
       THEN Len(log) = i + 1 /\ log[i + 1] = E0("disconnect")
       ELSE Len(log) = i
\* the action at position i made the task fail with this reason
FailedAt(i, reason) ==
    /\ i < Len(log) /\ log[i + 1] = FailEv(reason, "")
    /\ EndsAfter(i + 1)

\* C4: a checksumResponse that differs from the running checksum ends the
\* attempt: once the request's didRequest is in as well,
\* didFailToFinish(HubError, ChecksumMismatch) is put, then disconnect (the
\* connection is Connected); and after such a response no programRequest,
\* checksumRequest, rebootRequest or didFinish is ever put.
C4_ChecksumMismatch ==
    \A i \in Pos("checksumResponse") :
        log[i].x # XorAll(BytesBefore(i)) =>
          /\ \A j \in DOMAIN log :
                j > i => log[j].t \notin {"programRequest", "checksumRequest",
                                         "rebootRequest", "didFinish"}
          /\ \A a \in Pos("didRequest") :
                log[a].id = log[LastBefore("checksumRequest", i)].id =>
                  LET m == IF a > i THEN a ELSE i
                  IN  /\ ConnAt(m) = "Connected"
                      /\ FailedAt(m, "HubError.ChecksumMismatch")
                      /\ log[m + 2] = E0("disconnect")

C4_Witness ==
    /\ pc = "cancelled"
    /\ \E i \in Pos("checksumResponse") :
          /\ log[i].x # XorAll(BytesBefore(i))
          /\ ChunksBefore(i) = 10
          /\ log[Len(log) - 1] = FailEv("HubError", ".ChecksumMismatch")

\* C5: the terminal programResponse is checked, the count first: a count
\* other than the image length gives CountMismatch, else a checksum other
\* than the running checksum gives ChecksumMismatch; didProgress(1),
\* rebootRequest and didFinish occur only after a programResponse with the
\* right count and checksum.
C5_FinalChecks ==
    LET countOk(i) == log[i].y = Len(firmware)
        sumOk(i) == log[i].x = XorAll(BytesBefore(i))
    IN  /\ \A i \in Pos("programResponse") :
              /\ ~countOk(i) => FailedAt(i, "HubError.CountMismatch")
              /\ (countOk(i) /\ ~sumOk(i)) => FailedAt(i, "HubError.ChecksumMismatch")
              /\ (countOk(i) /\ sumOk(i)) =>
                    /\ Len(log) >= i + 2
                    /\ log[i + 1] = Ev("didProgress", 0, 1, 1, <<>>, "")
                    /\ log[i + 2].t = "rebootRequest"
        /\ \A j \in DOMAIN log :
              (\/ log[j].t \in {"rebootRequest", "didFinish"}
               \/ (log[j].t = "didProgress" /\ log[j].x = log[j].y)) =>
                 \E i \in Pos("programResponse") : i < j /\ countOk(i) /\ sumOk(i)

C5_Witness ==
    \E i \in Pos("programResponse") :
        /\ log[i].y # Len(firmware)
        /\ log[i].x # XorAll(BytesBefore(i))
        /\ log[i + 1] = FailEv("HubError", ".CountMismatch")

\* C6: a timeout of the wait for the eraseResponse counts as a successful
\* erase: no didFailToFinish follows it and, once the didRequest of the erase
\* request is in, initRequest is sent; a timeout of any other wait fails the
\* attempt with TimedOut.
C6_EraseTimeoutIsSuccess ==
    \A i \in Pos("timeout") :
        IF log[i].r = "eraseResponse"
        THEN /\ ~(i < Len(log) /\ log[i + 1].t = "didFailToFinish")
             /\ (\E a \in Pos("didRequest") :
                    log[a].id = log[LastBefore("eraseRequest", i)].id)
                  => Has("initRequest")
        ELSE FailedAt(i, "TimedOut")

\* C7: a wait for a response ends in exactly one way: the response is handed
\* to the caller; an errorResponse gives HubError/UnknownCommand; a
\* didDisconnect gives Disconnected; a timeout (of a wait other than the one
\* for eraseResponse) gives TimedOut; each failure is followed by
\* disconnectAndCancel, and nothing of the attempt runs after it.
C7_WaitOutcomes ==
    /\ \A i \in Pos("errorResponse") : FailedAt(i, "HubError.UnknownCommand")
    /\ \A i \in Pos("didDisconnect") :
          log[i].r # "no taker" => FailedAt(i, "Disconnected")
    /\ \A i \in Pos("timeout") :
          log[i].r # "eraseResponse" => FailedAt(i, "TimedOut")
    /\ respPending => resp = NoResp
    /\ (pc \in {"info", "erase", "init", "checksum"} /\ ~respPending) =>
          /\ resp.t = pattern
          /\ \E i \in Pos(pattern) :
                /\ log[i] = resp
                /\ \A j \in DOMAIN log :
                      j > i => log[j].t \notin {pattern, "errorResponse", "timeout"}

C7_Witness ==
    /\ pc = "cancelled"
    /\ \E i \in Pos("didDisconnect") :
          log[i].r # "no taker" /\ log[i - 1].t = "checksumRequest"

\* C8: an attempt puts at most one terminal notification (didFinish or
\* didFailToFinish), whatever the order of acknowledgments, failures to
\* send, responses, error frames, disconnects and timeouts.
C8_OneTerminal == Cardinality(Terminals) <= 1

\* the send of a request failed while its response was still awaited
C8_Witness ==
    /\ pc = "cancelled"
    /\ \E i \in Pos("didFailToRequest") :
          /\ log[i - 1].t \in {"infoRequest", "eraseRequest", "initRequest", "checksumRequest"}
          /\ log[i + 1] = FailEv("BleError", "")

\* C9: an attempt that fails while the connection is Connected puts a
\* disconnect before it ends; no disconnect is put when the connection is
\* not Connected; either way the attempt ends there.
C9_DisconnectOnFailure ==
    /\ \A i \in Pos("didFailToFinish") :
          /\ IF ConnAt(i) = "Connected"
             THEN Len(log) = i + 1 /\ log[i + 1] = E0("disconnect")
             ELSE Len(log) = i
          /\ pc \in {"cancelled", "done"} /\ ~sentPending /\ ~respPending
    /\ \A j \in Pos("disconnect") :
          /\ j > 1 /\ log[j - 1].t = "didFailToFinish"
          /\ ConnAt(j - 1) = "Connected"

C9_Witness ==
    /\ pc = "cancelled" /\ connection = "Disconnecting"
    /\ Len(log) > 1 /\ log[Len(log)] = E0("disconnect")
    /\ log[Len(log) - 1] = FailEv("HubError", ".InitFailed")

\* C10 as stated: on a failure path the disconnect request comes before the
\* didFailToFinish notification.
C10_DisconnectBeforeNotification ==
    \A i \in Pos("didFailToFinish") : \A j \in Pos("disconnect") : j < i

\* C10, amended: the notification comes first; the disconnect (put when the
\* connection is Connected) is the action right after it, and no disconnect
\* is put before the notification.
C10_NotificationThenDisconnect ==
    /\ \A j \in Pos("disconnect") :
          /\ j > 1 /\ log[j - 1].t = "didFailToFinish"
          /\ \A i \in Pos("didFailToFinish") : i < j
    /\ \A i \in Pos("didFailToFinish") :
          ConnAt(i) = "Connected" => (i < Len(log) /\ log[i + 1].t = "disconnect")

C10_Witness ==
    /\ pc = "cancelled"
    /\ Len(log) > 1 /\ log[Len(log)] = E0("disconnect")
    /\ log[Len(log) - 1] = FailEv("TimedOut", "")

\* the bootloader requests of the attempt, in the order they were put
RequestTypes ==
    {"infoRequest", "eraseRequest", "initRequest", "programRequest",
     "checksumRequest", "rebootRequest"}
IsRequest(e) == e.t \in RequestTypes
SentRequests == SelectSeq(log, IsRequest)

\* C11: every bootloader request carries an id freshly drawn from the
\* counter: the ids of the requests of an attempt strictly increase in the
\* order the requests are sent, all lie below the counter's next value, and
\* the request whose acknowledgment is awaited is the only one with its id.
C11_FreshIds ==
    LET R == SentRequests
    IN  /\ \A k \in 1..(Len(R) - 1) : R[k].id < R[k + 1].id
        /\ Len(R) > 0 => R[Len(R)].id < nextId
        /\ sentPending =>
              /\ Len(R) > 0 /\ R[Len(R)].id = curId
              /\ \A k \in 1..(Len(R) - 1) : R[k].id # curId

C11_Witness ==
    /\ pc = "done" /\ Has("didFinish") /\ Has("checksumRequest")
    /\ SentRequests[1].id = MaxFirstId
    /\ Len(SentRequests) > 5

\* C12: responses are matched to requests by message id: the response a
\* wait hands to its caller is one the hub sent for the pending request,
\* never one sent for an earlier request of the same kind.
C12_MatchedById ==
    resp.t \in {"infoResponse", "eraseResponse", "initResponse",
                "checksumResponse", "programResponse"} => resp.id = curId

\* the reasons loadFirmware reports for an archive it cannot build from
BuildFailures ==
    {"ZipError", "BadMetadata.mpy-abi-version", "BadMetadata.checksum-type",
     "FirmwareSize", "FailedToCompile"}
\* positions of the image-build failures reported
BuildFailurePos == {i \in Pos("didFailToFinish") : log[i].r \in BuildFailures}
\* none of these actions was dispatched before position i
NoneBefore(ts, i) == \A j \in 1..(i - 1) : log[j].t \notin ts

\* C13 as stated: when an image-build failure is reported, the attempt has
\* emitted no connect request and no bootloader request.
C13_BuildFailureBeforeIO ==
    \A i \in BuildFailurePos : NoneBefore({"connect"} \cup RequestTypes, i)

\* C13, amended: with an archive supplied (action.data not null) an
\* image-build failure is reported before any connect or bootloader request;
\* with none supplied the image is built after identification, so connect,
\* infoRequest and infoResponse precede the failure; in both cases no
\* didStart and no request after infoRequest precedes it.
C13_BuildFailureBeforeErase ==
    \A i \in BuildFailurePos :
        /\ NoneBefore({"didStart"} \cup (RequestTypes \ {"infoRequest"}), i)
        /\ IF data # "null"
           THEN NoneBefore({"connect"} \cup RequestTypes, i)
           ELSE \E c \in Pos("connect") : \E q \in Pos("infoRequest") :
                    \E a \in Pos("infoResponse") : c < q /\ q < a /\ a < i

C13_Witness ==
    /\ data = "null" /\ pc = "cancelled"
    /\ Has("infoResponse")
    /\ \E i \in BuildFailurePos : log[i].r = "FailedToCompile"

\* C14: when the read of the custom program fails, the attempt ends with one
\* failure notification, which carries the read error, and has put no
\* compile request, no connect request and no bootloader request.
C14_ReadFailure ==
    \A i \in Pos("fileStorageDidFailToReadFile") :
        /\ pc = "cancelled"
        /\ Len(log) = i + 1
        /\ log[i + 1] = FailEv("Unknown", "." \o log[i].r)
        /\ Pos("didFailToFinish") = {i + 1}
        /\ \A j \in DOMAIN log :
              log[j].t \notin ({"compile", "connect", "didFinish"} \cup RequestTypes)

C14_Witness ==
    /\ customProgram /\ pc = "cancelled"
    /\ Has("fileStorageReadFile") /\ Has("fileStorageDidFailToReadFile")
    /\ log[Len(log)].r = "Unknown.fileError"

\* C15: once the hub's type is known and the image's device id differs from
\* it, the attempt has put didFailToFinish(DeviceMismatch) and is over, with
\* no didStart, no eraseRequest and no later request; didStart is put only
\* for an image whose device id is the hub's type.  This covers the image
\* built before the connection and the one built after identification.
C15_DeviceMismatch ==
    /\ (hubType # "none" /\ deviceId # "undefined" /\ deviceId # hubType) =>
          /\ pc = "cancelled"
          /\ \E i \in Pos("didFailToFinish") : log[i].r = "DeviceMismatch"
          /\ \A j \in DOMAIN log :
                log[j].t \notin ({"didStart", "didFinish"}
                                 \cup (RequestTypes \ {"infoRequest"}))
    /\ Has("didStart") => deviceId = hubType
    /\ \A i \in Pos("didFailToFinish") :
          log[i].r = "DeviceMismatch" =>
              hubType # "none" /\ deviceId # "undefined" /\ deviceId # hubType

\* the mismatch of an image built after identification
C15_Witness ==
    /\ data = "null" /\ pc = "cancelled"
    /\ Has("didCompile")
    /\ \E i \in Pos("didFailToFinish") : log[i].r = "DeviceMismatch"

\* ------------------------------------------- reading loadFirmware's result
\* the metadata of the archive loadFirmware works on
Meta == Archives[zip]
\* loadFirmware was called and FirmwareReader gave base, metadata and main.py
Loaded == zip # "none" /\ pc \notin {"idle", "loadFirmware"} /\ Meta.kind = "ok"
\* the compiled program loadFirmware was given
Mpy == log[CHOOSE i \in Pos("didCompile") : TRUE].data
\* loadFirmware returned an image (the caller went on to put connect)
Returned == pc = "connect" /\ data # "null"
\* loadFirmware ended the attempt with this failure and returned nothing
Refused(reason) ==
    /\ pc = "cancelled" /\ Len(log) > 0 /\ log[Len(log)].t = "didFailToFinish"
    /\ log[Len(log)].r = reason
    /\ firmware = <<>> /\ deviceId = "undefined"
    /\ ~Has("connect")

\* C16: for metadata whose mpy-abi-version is neither 5 nor 6, loadFirmware
\* reports BadMetadata for 'mpy-abi-version', puts no compile request and
\* returns no image; a compile request is put only for version 5 or 6.
C16_AbiVersion ==
    /\ (Loaded /\ Meta.abi \notin {5, 6}) =>
          /\ Refused("BadMetadata.mpy-abi-version")
          /\ ~Has("compile")
          /\ Len(log) = 1
    /\ \A i \in Pos("compile") : log[i].x \in {5, 6} /\ log[i].x = Meta.abi

C16_Witness ==
    /\ Loaded /\ Meta.abi = 7
    /\ Refused("BadMetadata.mpy-abi-version")

\* the length the image needs: offset, length field, the program rounded up
\* to whole words, checksum
NeededLength == Meta.off + 4 + (4 * CeilDiv(Len(Mpy), 4)) + 4

\* C17: an image loadFirmware returns has length checksumOffset + 4, at most
\* max-firmware-size; when checksumOffset + 4 exceeds max-firmware-size the
\* build fails with FirmwareSize and returns nothing, and it does so before
\* the image is written or summed: also for an archive whose image could not
\* be written or summed, the failure reported is FirmwareSize.
C17_ImageLength ==
    /\ Returned => Len(firmware) = NeededLength /\ NeededLength <= Meta.maxSize
    /\ (Loaded /\ Has("didCompile")) =>
          (NeededLength > Meta.maxSize <=> Refused("FirmwareSize"))

\* too large, and of a checksum type that is not supported
C17_Witness ==
    /\ Loaded /\ Has("didCompile")
    /\ Meta.cksum = "md5" /\ NeededLength > Meta.maxSize
    /\ Refused("FirmwareSize")

\* the bytes of the image from offset at (counted from 0), n of them
ImageBytes(at, n) == SubSeq(firmware, at + 1, at + n)

\* C18: in a returned image the checksum sits at user-mpy-offset + 4 + n +
\* pad, where n is the program length and pad, in 0..3, makes n + pad the
\* smallest multiple of 4 that is at least n; n is stored as a little-endian
\* u32 at user-mpy-offset, the program bytes follow at user-mpy-offset + 4,
\* the padding is zero (offset 100 and n = 10: checksum at 116, length 120).
C18_Layout ==
    Returned =>
        LET n == Len(Mpy)
            off == Meta.off
            checksumOffset == Len(firmware) - 4
            pad == checksumOffset - (off + 4 + n)
        IN  /\ pad \in 0..3
            /\ (n + pad) % 4 = 0
            /\ ImageBytes(off, 4) = <<n % 256, (n \div 256) % 256, 0, 0>>
            /\ ImageBytes(off + 4, n) = Mpy
            /\ ImageBytes(off + 4 + n, pad) = [i \in 1..pad |-> 0]
            /\ (off = 100 /\ n = 10) => (checksumOffset = 116 /\ Len(firmware) = 120)

C18_Witness ==
    /\ Returned /\ Meta.off = 100 /\ Len(Mpy) = 10
    /\ Len(firmware) = 120

\* the checksum stored in the returned image
Footer == GetUint32(firmware, Len(firmware) - 4)
\* the little-endian words of the returned image below the checksum
ContentWords ==
    [k \in 1..((Len(firmware) - 4) \div 4) |-> GetUint32(firmware, 4 * (k - 1))]
\* one 0xFFFFFFFF word for every word between the image's end and the cap
FillWords == [k \in 1..CeilDiv(Meta.maxSize - Len(firmware), 4) |-> AllOnes]
\* the checksum of the metadata's type over these words
ChecksumOf(words) ==
    IF Meta.cksum = "sum" THEN sumComplement32(words) ELSE crc32(words)

\* C19 as stated: the checksum is computed over the words of the content
\* below checksumOffset followed by the fill words, with no word taken from
\* the footer position.
C19_FooterExcluded ==
    Returned => Footer = ChecksumOf(ContentWords \o FillWords)

\* C19, amended: the checksum is computed over the whole image of length
\* checksumOffset + 4 followed by the fill words: the words of the content,
\* then the word at the footer position, which is still zero, then the fill.
C19_FooterWordFed ==
    Returned => Footer = ChecksumOf(ContentWords \o <<W32(0, 0)>> \o FillWords)

C19_Witness ==
    /\ Returned /\ Meta.cksum = "crc32"
    /\ Len(FillWords) > 0 /\ Len(ContentWords) > 3
    /\ Footer # ChecksumOf(ContentWords \o FillWords)

\* C20: for an image that fits and is made of whole words: when the
\* checksum-type is neither 'sum' nor 'crc32', or the checksum computed is
\* 0, loadFirmware reports BadMetadata for 'checksum-type' and returns
\* nothing; otherwise the image returned is the one built with the checksum
\* written little-endian at checksumOffset, together with the metadata's
\* device-id.
C20_ChecksumType ==
    (Loaded /\ Has("didCompile")
        /\ NeededLength <= Meta.maxSize /\ NeededLength % 4 = 0) =>
        LET body == ImageBody(Meta, Mpy, hubName)
            supported == Meta.cksum \in {"sum", "crc32"}
            value == ChecksumOf(firmwareIterator(body, Meta.maxSize))
        IN  IF ~supported \/ IsZero32(value)
            THEN Refused("BadMetadata.checksum-type")
            ELSE /\ Returned
                 /\ Len(firmware) = NeededLength
                 /\ ImageBytes(0, NeededLength - 4) = SubSeq(body, 1, NeededLength - 4)
                 /\ ImageBytes(NeededLength - 4, 4) = LE32(value)
                 /\ deviceId = Meta.deviceId

\* a supported type whose checksum comes out as 0
C20_Witness ==
    /\ Loaded /\ Has("didCompile") /\ Meta.cksum = "sum"
    /\ NeededLength <= Meta.maxSize
    /\ Refused("BadMetadata.checksum-type")

\* the part of the base binary where the hub's name is kept
BaseName == SubSeq(Meta.base, Meta.nameOff + 1, Meta.nameOff + Meta.maxName)

\* C21: a returned image holds the encoded hub name at hub-name-offset
\* exactly when max-hub-name-size > 0 and the hub name given is not empty;
\* in every other case the bytes at hub-name-offset, and all bytes below
\* user-mpy-offset, are those of the base binary; when the name is written
\* the other bytes below user-mpy-offset are those of the base binary.
C21_HubName ==
    Returned =>
        IF Meta.maxName > 0 /\ hubName # <<>>
        THEN /\ ImageBytes(Meta.nameOff, Meta.maxName)
                    = encodeHubName(hubName, Meta.maxName)
             /\ ImageBytes(0, Meta.off)
                    = SetAt(Meta.base, encodeHubName(hubName, Meta.maxName), Meta.nameOff)
        ELSE /\ ImageBytes(Meta.nameOff, Meta.maxName) = BaseName
             /\ ImageBytes(0, Meta.off) = Meta.base

\* a name written over the built-in one
C21_Witness ==
    /\ Returned /\ Meta.maxName > 0 /\ hubName # <<>>
    /\ ImageBytes(Meta.nameOff, Meta.maxName) = encodeHubName(hubName, Meta.maxName)
    /\ ImageBytes(Meta.nameOff, Meta.maxName) # BaseName

\* ------------------------------------------------------ reading progress
\* didProgress(x / y) is recorded with its numerator x and denominator y
IsProgress(e) == e.t = "didProgress"
Progress == SelectSeq(log, IsProgress)
\* the positions of the acknowledgments of program requests
ProgramAcks ==
    LET ids == {log[q].id : q \in Pos("programRequest")}
    IN  {a \in Pos("didRequest") : log[a].id \in ids}
\* a terminal programResponse with the image's length and checksum is in
FlashVerified ==
    \E j \in Pos("programResponse") :
        log[j].y = Len(firmware) /\ log[j].x = XorAll(firmware)
\* what holds of the reports whatever the chunks' reports count: a report
\* follows each acknowledged chunk, the values lie in [0, 1] and never
\* decrease, and 1 is reported only after the terminal response passed
\* its checks
ProgressShape(D, P) ==
    /\ \A a \in ProgramAcks : a < Len(log) /\ log[a + 1].t = "didProgress"
    /\ Len(D) <= Len(P) + 1
    /\ \A k \in 1..Len(D) : 0 <= D[k].x /\ D[k].x <= D[k].y /\ D[k].y > 0
    /\ \A k \in 1..(Len(D) - 1) : D[k].x * D[k + 1].y <= D[k + 1].x * D[k].y
    /\ \A k \in 1..Len(D) : D[k].x = D[k].y => (k = Len(P) + 1 /\ FlashVerified)
    /\ Len(D) = Len(P) + 1 => (D[Len(D)].x = D[Len(D)].y /\ FlashVerified)

\* C22 as stated: the report after a chunk is bytesSent / totalLength with
\* bytesSent counting every image byte sent so far, the chunk just sent
\* included; the values never decrease, lie in [0, 1], and 1 is reported
\* only after the terminal response passed its checks.
C22_ProgressCountsChunk ==
    LET D == Progress
        P == ProgramRequests
        sent[k \in 0..Len(P)] == IF k = 0 THEN 0 ELSE sent[k - 1] + Len(P[k].data)
    IN  /\ ProgressShape(D, P)
        /\ \A k \in 1..Len(D) :
              k <= Len(P) => (D[k].x = sent[k] /\ D[k].y = Len(firmware))

\* C22, amended: the report after a chunk is offset / totalLength, where
\* offset is the number of image bytes sent before the chunk just sent (the
\* offset the chunk was taken from), so the first report is 0 and every
\* report of a chunk is below 1; the values never decrease, lie in [0, 1],
\* and 1 is reported only after the terminal response passed its checks.
C22_ProgressBeforeChunk ==
    LET D == Progress
        P == ProgramRequests
        sent[k \in 0..Len(P)] == IF k = 0 THEN 0 ELSE sent[k - 1] + Len(P[k].data)
    IN  /\ ProgressShape(D, P)
        /\ \A k \in 1..Len(D) :
              k <= Len(P) =>
                  /\ D[k].x = sent[k - 1]
                  /\ D[k].x = P[k].x - startAddress
                  /\ D[k].y = Len(firmware)
                  /\ D[k].x < D[k].y

\* a finished attempt of several chunks
C22_Witness ==
    /\ pc = "done" /\ Has("didFinish")
    /\ Len(Progress) = Len(ProgramRequests) + 1
    /\ Len(Progress) > 3
    /\ Progress[1].x = 0 /\ Progress[2].x > 0

\* the largest payload the hub's type takes (0: the table has no entry)
AdvertisedMax == MaxProgramFlashSize(hubType)
\* the program requests carry the image in chunks of this size, the last
\* one carrying what is left
ChunkedBy(size) ==
    LET P == ProgramRequests
        L == Len(firmware)
    IN  /\ maxDataSize = size
        /\ \A k \in 1..Len(P) : Len(P[k].data) = Min(size, L - ((k - 1) * size))

C23_NoMaximum ==
    /\ ~android /\ AdvertisedMax = 0
    /\ Len(ProgramRequests) > 1
    /\ Len(ProgramRequests[1].data) = SafeDataSize

\* ------------------------------------------------- reading the USB DFU flow
\* the task has ended: it returned, or it was cancelled
Ended == pc \in {"done", "cancelled"}
\* the positions where dfu.connect succeeded
DfuConnects == {i \in Pos("dfu.connect") : log[i].r = "ok"}
\* the positions of the two terminal events of the USB DFU flow
DfuTerminals == Pos("firmwareDidFlashUsbDfu") \cup Pos("firmwareDidFailToFlashUsbDfu")
HasAlert(category, name) ==
    \E i \in Pos("alertsShowAlert") : log[i] = Alert(category, name)

\* C24: once dfu.connect has succeeded, dfu.close is called exactly once on
\* every way out of the attempt (success, firmware/device mismatch, an
\* image-build failure that cancels the task, a thrown error, the timeout
\* of the wait for the disconnect), as the last thing the attempt does;
\* while the attempt runs the handle stays open, and dfu.close is never
\* called on a handle that was not connected.
C24_HandleReleased ==
    LET closes == Pos("dfu.close")
    IN  /\ Cardinality(closes) <= 1
        /\ closes # {} => (DfuConnects # {} /\ Ended)
        /\ (DfuConnects # {} /\ Ended) => (closes = {Len(log)} /\ defer = <<>>)
        /\ (DfuConnects # {} /\ ~Ended) => (closes = {} /\ defer = <<"dfu.close">>)
        /\ DfuConnects = {} => defer = <<>>

\* the way out by the cancel() of the image builder
C24_Witness ==
    /\ pc = "cancelled" /\ DfuConnects # {}
    /\ Len(log) > 2
    /\ log[Len(log)] = E0("dfu.close")
    /\ log[Len(log) - 1] = FailEv("FailedToCompile", "")

\* C25: firmwareDidFlashUsbDfu is put only right after
\* dfu.waitDisconnected(30000) resolved; when it rejects because the time is
\* up, the alert unexpectedError and then firmwareDidFailToFlashUsbDfu are
\* put, and never firmwareDidFlashUsbDfu; when the image's device id is not
\* the one of the USB product, no dfu.write is started.
C25_SuccessAfterWait ==
    /\ \A i \in Pos("firmwareDidFlashUsbDfu") :
          /\ i > 1
          /\ log[i - 1] = Ev("dfu.waitDisconnected", 0, DfuDisconnectTimeout, 0, <<>>,
                              "disconnected")
    /\ \A i \in Pos("dfu.waitDisconnected") :
          /\ i > 1 /\ log[i - 1].t = "dfu.write"
          /\ log[i].x = DfuDisconnectTimeout
          /\ log[i].r = "timeout" =>
                /\ Len(log) >= i + 2
                /\ log[i + 1] = Alert("alerts", "unexpectedError.timeout")
                /\ log[i + 2] = E0("firmwareDidFailToFlashUsbDfu")
                /\ ~Has("firmwareDidFlashUsbDfu")
    /\ (firmware # <<>> /\ deviceId # productIdMap(device)) =>
          /\ ~Has("dfu.write") /\ ~Has("firmwareDidFlashUsbDfu")
          /\ HasAlert("firmware", "firmwareMismatch")
    /\ \A i \in Pos("dfu.write") :
          deviceId = productIdMap(device) /\ log[i].data = firmware /\ firmware # <<>>

\* the device did not disconnect within the bound
C25_Witness ==
    /\ pc = "done" /\ Has("dfu.write")
    /\ \E i \in Pos("dfu.waitDisconnected") : log[i].r = "timeout"
    /\ Cardinality(Pos("firmwareDidFailToFlashUsbDfu")) = 1

\* C26: a USB DFU attempt that has ended has put exactly one of
\* firmwareDidFlashUsbDfu and firmwareDidFailToFlashUsbDfu, once.
C26_OneDfuTerminal ==
    /\ Cardinality(DfuTerminals) <= 1
    /\ Ended => Cardinality(DfuTerminals) = 1

\* where C26 fails: the attempt ended by the cancel() of the image builder,
\* with didFailToFinish as its only notification
C26_EndedWithoutDfuTerminal ==
    /\ pc = "cancelled" /\ DfuTerminals = {}
    /\ Has("didFailToFinish")

\* where C26 holds: the task returned
C26_ReturnedWithDfuTerminal == pc = "done" => Cardinality(DfuTerminals) = 1

\* C27: every attempt ends with a terminal notification (didFinish or
\* didFailToFinish), also when the hub goes away or stops answering while
\* the attempt waits for an acknowledgment alone.
C27_Terminates == <>(Terminals # {})

\* where C27 fails: the hub went away while the attempt waited for the
\* didRequest of a program request; no timeout and no didDisconnect is
\* raced there
C27_StuckWaitingForAck ==
    /\ pc = "program" /\ sentPending /\ ~respPending
    /\ connection = "Disconnected"
    /\ log[Len(log)].t = "didDisconnect"
    /\ ~ENABLED Settles

\* C28: no response is lost for arriving before the didRequest of its
\* request: a response to an info, erase, init or checksum request that
\* came in first is kept for the caller until the didRequest is in; and once
\* the hub has sent the terminal programResponse with the image's length
\* and checksum, also before the didRequest of the last chunk, the attempt
\* does not time out waiting for it.
C28_ResponseNotLost ==
    /\ (pc \in {"info", "erase", "init", "checksum"} /\ sentPending /\ ~respPending) =>
          (resp.t = pattern /\ \E i \in Pos(pattern) : log[i] = resp)
    /\ \A i \in Pos("programResponse") :
          (log[i].y = Len(firmware) /\ log[i].x = XorAll(firmware)) =>
              /\ \A j \in Pos("timeout") : j > i => log[j].r # "programResponse"
              /\ \A f \in Pos("didFailToFinish") : f > i => log[f].r # "TimedOut"

\* where C28 fails: the terminal programResponse came before the didRequest
\* of the last chunk, and the wait of line 512 ran out
C28_LostResponse ==
    /\ pc = "cancelled"
    /\ \E i \in Pos("programResponse") :
          /\ log[i].r = "no taker"
          /\ log[i].y = Len(firmware) /\ log[i].x = XorAll(firmware)
          /\ log[i + 1].t = "didRequest"
          /\ \E j \in Pos("timeout") : j > i /\ log[j].r = "programResponse"
    /\ log[Len(log) - 1] = FailEv("TimedOut", "")

\* where C28 holds: the response to an info, erase, init or checksum
\* request that came before the didRequest is handed to the caller
C28_KeptForCaller ==
    (pc \in {"info", "erase", "init", "checksum"} /\ sentPending /\ ~respPending) =>
        (resp.t = pattern /\ \E i \in Pos(pattern) : log[i] = resp)

====
